---- MODULE Spec2Model ----
(***************************************************************************)
(* Model of src/bytes/compress.rs: the self-describing compression frame   *)
(*     <token> ';' <varnum body length> <body>                             *)
(* written by Compression::compress and read by Compression::decompress.   *)
(* Bytes are integers 0..255, byte strings are sequences of bytes.         *)
(***************************************************************************)
EXTENDS Integers, Sequences, FiniteSets, TLC

VARIABLES
    out,      \* every byte written so far to the sink `out: &mut W`
    cres,     \* what the last call of compress did and returned
    frames,   \* the compress calls that returned Ok on this sink, in order
    phase,    \* "encode": the sink is being written, "decode": a source is being read
    src,      \* where the source `inp` comes from: "none", "sink", "truncated", "crafted"
    inp,      \* the bytes of the source `inp: &mut R`
    pos,      \* the source's read position (index of the next unread byte)
    results,  \* what each call of decompress on this source did and returned
    huge      \* what compress did on an input whose length is kept as a number only

vars == <<out, cres, frames, phase, src, inp, pos, results, huge>>

(***************************************************************************)
(* Bounds of the model.                                                    *)
(***************************************************************************)
MaxDataLen == 1     \* inputs of compress: every byte string over DataBytes up to this length
LongLen    == 130   \* and one long input, whose length needs a two-byte varnum
MaxFrames  == 2     \* frames written back to back into one sink
MaxRoom    == 12    \* a failing sink accepts 0..MaxRoom more bytes
MaxDropped == 1     \* bytes a single Write::write call may leave unwritten
MaxDecodes == 3     \* decompress calls on one source

(***************************************************************************)
(* Bytes and tokens.                                                       *)
(***************************************************************************)
SEMI == 59                                           \* b';'

Values == {"Identity", "Gzip", "Deflate", "Brotli", "Lzw"}

\* The byte string each arm of compress writes first, without its final ';'.
TokenOf(a) ==
    CASE a = "Identity" -> <<105, 100, 101, 110, 116, 105, 116, 121>>      \* identity
      [] a = "Gzip"     -> <<103, 122, 105, 112>>                          \* gzip
      [] a = "Deflate"  -> <<100, 101, 102, 108, 97, 116, 101>>            \* deflate
      [] a = "Brotli"   -> <<98, 114>>                                     \* br
      [] a = "Lzw"      -> <<99, 111, 109, 112, 114, 101, 115, 115>>       \* compress

(***************************************************************************)
(* Numbers.  usize and u32 values are pairs <<hi, lo>> standing for        *)
(* hi * 2^16 + lo with 0 <= lo < 2^16, so that lengths of 2^32 and more    *)
(* and the cast `as u32` keep their exact value.                           *)
(***************************************************************************)
Limb == 256 * 256

Wide(n) == <<n \div Limb, n % Limb>>

\* `x as u32` for a usize x: the low 32 bits.
AsU32(w) == <<w[1] % Limb, w[2]>>

\* `x as usize` for a u32 x (64-bit usize): the same value.
AsUsize(w) == w

FitsU32(w) == w[1] < Limb

WideLeq(v, w) == v[1] < w[1] \/ (v[1] = w[1] /\ v[2] <= w[2])

(***************************************************************************)
(* std::io::Error values.                                                  *)
(***************************************************************************)
NoError        == [kind |-> "none", msg |-> ""]
InvalidHeader  == [kind |-> "InvalidInput", msg |-> "Invalid compression header"]
UnexpectedEof  == [kind |-> "UnexpectedEof", msg |-> "failed to fill whole buffer"]
WriteZero      == [kind |-> "WriteZero", msg |-> "failed to write whole buffer"]
InvalidVarnum  == [kind |-> "InvalidData", msg |-> "Invalid varnum"]
EncoderFailure == [kind |-> "Other", msg |-> "compressor failed"]
RejectedValue  == [kind |-> "InvalidData", msg |-> "deserializer failed"]

\* What a decompressor may return on a body it rejects: any std::io::Error.
DecoderErrors ==
    { UnexpectedEof,
      [kind |-> "InvalidInput", msg |-> "corrupt deflate stream"],
      [kind |-> "InvalidData", msg |-> "Invalid Data"] }

(***************************************************************************)
(* bytes::varnum: base-128 varint of a u32, low group first, the high bit  *)
(* of a byte set when another byte follows, five bytes at most.            *)
(***************************************************************************)
Shr7(w) == <<w[1] \div 128, (w[1] % 128) * 512 + (w[2] \div 128)>>

RECURSIVE VarnumBytes(_)
VarnumBytes(w) ==
    IF w[1] = 0 /\ w[2] < 128
    THEN <<w[2]>>
    ELSE <<128 + (w[2] % 128)>> \o VarnumBytes(Shr7(w))

\* The u32 whose 7-bit groups are g, low group first; bits above 32 are lost.
RECURSIVE GroupsValue(_)
GroupsValue(g) ==
    IF g = <<>> THEN <<0, 0>>
    ELSE LET rest == GroupsValue(Tail(g))
             lo   == rest[2] * 128 + Head(g)
         IN  <<(rest[1] * 128 + (lo \div Limb)) % Limb, lo % Limb>>

\* read_varnum on source s at position p, having read the groups g so far.
RECURSIVE ReadVarnumFrom(_, _, _)
ReadVarnumFrom(s, p, g) ==
    IF p > Len(s)
    THEN [err |-> UnexpectedEof, value |-> <<0, 0>>, pos |-> p]
    ELSE IF s[p] < 128
    THEN [err |-> NoError, value |-> GroupsValue(Append(g, s[p])), pos |-> p + 1]
    ELSE IF Len(g) = 4
    THEN [err |-> InvalidVarnum, value |-> <<0, 0>>, pos |-> p + 1]
    ELSE ReadVarnumFrom(s, p + 1, Append(g, s[p] - 128))

ReadVarnum(s, p) == ReadVarnumFrom(s, p, <<>>)

(***************************************************************************)
(* The external compressors and their inverses, as black boxes that are    *)
(* not the identity: a magic byte per algorithm, the bytes shifted by one, *)
(* and a trailing length check byte.  A body that is not of this shape is  *)
(* rejected.                                                               *)
(***************************************************************************)
Magic(a) ==
    CASE a = "Gzip" -> 31 [] a = "Deflate" -> 120 [] a = "Brotli" -> 27 [] a = "Lzw" -> 12

Encoder(a, d) ==
    <<Magic(a)>> \o [i \in 1..Len(d) |-> (d[i] + 1) % 256] \o <<Len(d) % 256>>

DecoderAccepts(a, c) ==
    /\ Len(c) >= 2
    /\ c[1] = Magic(a)
    /\ c[Len(c)] = (Len(c) - 2) % 256

Decoder(a, c) == [i \in 1..(Len(c) - 2) |-> (c[i + 1] + 255) % 256]

(***************************************************************************)
(* The sink `out: &mut W`.  room is the number of bytes the sink still     *)
(* accepts (-1: no limit).  write_all either writes every byte, or writes  *)
(* the bytes that fit and fails.  A failed step ends the call (`?`): the   *)
(* steps after it do nothing.                                              *)
(***************************************************************************)
Unlimited == 0 - 1

NewSink(room) ==
    [added |-> <<>>, room |-> room, err |-> NoError, log |-> <<>>, failedAt |-> "none"]

\* A write whose failure does not end the call (no `?`).
WriteAllUnchecked(st, bytes, step) ==
    IF st.room = Unlimited \/ Len(bytes) <= st.room
    THEN [st EXCEPT !.added = @ \o bytes,
                    !.room  = IF @ = Unlimited THEN @ ELSE @ - Len(bytes),
                    !.log   = Append(@, step)]
    ELSE [st EXCEPT !.added = @ \o SubSeq(bytes, 1, st.room),
                    !.room  = 0,
                    !.err   = WriteZero,
                    !.log   = Append(@, step),
                    !.failedAt = step]

WriteAll(st, bytes, step) ==
    IF st.err # NoError THEN st
    ELSE IF st.room = Unlimited \/ Len(bytes) <= st.room
    THEN [st EXCEPT !.added = @ \o bytes,
                    !.room  = IF @ = Unlimited THEN @ ELSE @ - Len(bytes),
                    !.log   = Append(@, step)]
    ELSE [st EXCEPT !.added = @ \o SubSeq(bytes, 1, st.room),
                    !.room  = 0,
                    !.err   = WriteZero,
                    !.log   = Append(@, step),
                    !.failedAt = step]

\* out.write_varnum(n)
WriteVarnum(st, n) == WriteAll(st, VarnumBytes(n), "length")

(***************************************************************************)
(* Compression::compress.                                                  *)
(***************************************************************************)
\* encoder.write_all(data) and encode_bytes(data): the encoder takes every byte.
EncoderWriteAll(d) == d

\* encoder.write(data): Write::write takes some of the bytes and returns how
\* many; the code discards the count.  dropped is the number of bytes not taken.
EncoderWrite(d, dropped) == SubSeq(d, 1, Len(d) - dropped)

\* The bytes each arm writes as the body.
Buffer(a, d, dropped) ==
    CASE a = "Identity" -> d
      [] a = "Gzip"     -> Encoder(a, EncoderWriteAll(d))
      [] a = "Deflate"  -> Encoder(a, EncoderWrite(d, dropped))
      [] a = "Brotli"   -> Encoder(a, EncoderWrite(d, dropped))
      [] a = "Lzw"      -> Encoder(a, EncoderWriteAll(d))

\* The compression step of the arms that have one; encFail: the encoder fails.
RunEncoder(st, a, encFail) ==
    IF a = "Identity" \/ st.err # NoError THEN st
    ELSE IF encFail
    THEN [st EXCEPT !.err = EncoderFailure,
                    !.log = Append(@, "compress"),
                    !.failedAt = "compress"]
    ELSE [st EXCEPT !.log = Append(@, "compress")]

\* The number written by out.write_varnum(buffer.len() as u32).
DeclaredLength(bufLen) == AsU32(bufLen)

\* One call of compress on data d with a sink that accepts room more bytes.
CompressRun(a, d, room, dropped, encFail) ==
    LET s1     == WriteAll(NewSink(room), TokenOf(a) \o <<SEMI>>, "token")
        s2     == RunEncoder(s1, a, encFail)
        buffer == Buffer(a, d, dropped)
        s3     == WriteVarnum(s2, DeclaredLength(Wide(Len(buffer))))
        s4     == WriteAll(s3, buffer, "body")
        ok     == s4.err = NoError
    IN  [called   |-> TRUE,
         alg      |-> a,
         data     |-> d,
         dropped  |-> dropped,
         added    |-> s4.added,
         log      |-> s4.log,
         failedAt |-> s4.failedAt,
         ok       |-> ok,
         err      |-> s4.err,
         before   |-> IF ok THEN Wide(Len(d)) ELSE <<0, 0>>,
         after    |-> IF ok THEN Wide(Len(buffer)) ELSE <<0, 0>>]

NoCompress ==
    [called |-> FALSE, alg |-> "none", data |-> <<>>, dropped |-> 0, added |-> <<>>,
     log |-> <<>>, failedAt |-> "none", ok |-> FALSE, err |-> NoError,
     before |-> <<0, 0>>, after |-> <<0, 0>>]

\* compress on an input of n bytes whose compressed form has m bytes, into a
\* sink that accepts everything; only the lengths are kept.
CompressHugeRun(a, n, m) ==
    [called      |-> TRUE,
     alg         |-> a,
     ok          |-> TRUE,
     before      |-> n,
     after       |-> m,
     lengthField |-> VarnumBytes(DeclaredLength(m)),
     bodyCount   |-> m,
     decoded     |-> FALSE,
     byteLen     |-> <<0, 0>>,
     decodedOk   |-> FALSE,
     valueLen    |-> <<0, 0>>]

NoHuge ==
    [called |-> FALSE, alg |-> "none", ok |-> FALSE, before |-> <<0, 0>>,
     after |-> <<0, 0>>, lengthField |-> <<>>, bodyCount |-> <<0, 0>>,
     decoded |-> FALSE, byteLen |-> <<0, 0>>, decodedOk |-> FALSE,
     valueLen |-> <<0, 0>>]

(***************************************************************************)
(* Compression::decompress.                                                *)
(***************************************************************************)
MAX_LENGTH == 32

\* inp.read_exact(&mut buf) for a buffer of n bytes, on source s at position p.
\* When the source ends first, the bytes there are have been consumed, buf is
\* filled in part only, and the call fails.
ReadExact(s, p, n) ==
    IF WideLeq(n, Wide(Len(s) - p + 1))
    THEN [err |-> NoError, buf |-> SubSeq(s, p, p + n[2] - 1), pos |-> p + n[2]]
    ELSE [err |-> UnexpectedEof, buf |-> SubSeq(s, p, Len(s)), pos |-> Len(s) + 1]

\* The scan for ';': iteration i of `for _ in 0..limit`.
RECURSIVE ScanFrom(_, _, _, _, _)
ScanFrom(s, p, header, i, limit) ==
    IF i = limit
    THEN [err |-> NoError, found |-> FALSE, header |-> header, pos |-> p, reads |-> i]
    ELSE LET rd == ReadExact(s, p, <<0, 1>>)
         IN  IF rd.err # NoError
             THEN [err |-> rd.err, found |-> FALSE, header |-> header,
                   pos |-> rd.pos, reads |-> i]
             ELSE IF rd.buf[1] # SEMI
             THEN ScanFrom(s, rd.pos, Append(header, rd.buf[1]), i + 1, limit)
             ELSE [err |-> NoError, found |-> TRUE, header |-> header,
                   pos |-> rd.pos, reads |-> i + 1]

\* A scan that reads one byte more than MAX_LENGTH.
HeaderScanOneMore(s, p) == ScanFrom(s, p, <<>>, 0, MAX_LENGTH + 1)

HeaderScan(s, p) == ScanFrom(s, p, <<>>, 0, MAX_LENGTH)

IsPrefix(x, y) == Len(x) <= Len(y) /\ x = SubSeq(y, 1, Len(x))

\* A resolution that accepts a header that only starts with a token.
ResolveTokenByPrefix(header) ==
    IF IsPrefix(<<105, 100, 101, 110, 116, 105, 116, 121>>, header) THEN "Identity"
    ELSE IF IsPrefix(<<103, 122, 105, 112>>, header) THEN "Gzip"
    ELSE IF IsPrefix(<<100, 101, 102, 108, 97, 116, 101>>, header) THEN "Deflate"
    ELSE IF IsPrefix(<<98, 114>>, header) THEN "Brotli"
    ELSE IF IsPrefix(<<99, 111, 109, 112, 114, 101, 115, 115>>, header) THEN "Lzw"
    ELSE "none"

\* The if/else chain on the header; "none" is its final else.
ResolveToken(header) ==
    IF header = <<105, 100, 101, 110, 116, 105, 116, 121>> THEN "Identity"
    ELSE IF header = <<103, 122, 105, 112>> THEN "Gzip"
    ELSE IF header = <<100, 101, 102, 108, 97, 116, 101>> THEN "Deflate"
    ELSE IF header = <<98, 114>> THEN "Brotli"
    ELSE IF header = <<99, 111, 109, 112, 114, 101, 115, 115>> THEN "Lzw"
    ELSE "none"

\* A body read that returns the bytes there are (read, not read_exact).
ReadBodyShort(s, p, byteLen) ==
    LET rd == ReadExact(s, p, AsUsize(byteLen))
    IN  [rd EXCEPT !.err = NoError]

\* read_varnum, then compressed_bytes of byte_len bytes and read_exact into it.
ReadBody(s, p, byteLen) == ReadExact(s, p, AsUsize(byteLen))

\* The match on the compression found; derr is the error of a decoder that fails.
RunDecoder(a, c, derr) ==
    IF a = "Identity" THEN [err |-> NoError, bytes |-> c]
    ELSE IF DecoderAccepts(a, c) THEN [err |-> NoError, bytes |-> Decoder(a, c)]
    ELSE [err |-> derr, bytes |-> <<>>]

\* deserializer.read on the decompressed bytes.
Deserializers == {"identity", "rejecting"}

Deserialize(deser, bytes) ==
    IF deser = "identity" THEN [err |-> NoError, value |-> bytes]
    ELSE [err |-> RejectedValue, value |-> <<>>]

NewResult(p, deser) ==
    [ok |-> FALSE, value |-> <<>>, err |-> NoError, deser |-> deser,
     start |-> p, pos |-> p, found |-> FALSE, header |-> <<>>, scanReads |-> 0,
     compression |-> "none", bodyStart |-> 0, byteLen |-> <<0, 0>>, log |-> <<>>]

Fail(r, e) == [r EXCEPT !.err = e]

\* One call of decompress on source s at position p.
DecompressRun(s, p, deser, derr) ==
    LET scan == HeaderScan(s, p)
        r0   == [NewResult(p, deser) EXCEPT !.found = scan.found,
                                            !.header = scan.header,
                                            !.scanReads = scan.reads,
                                            !.pos = scan.pos,
                                            !.log = <<"scan">>]
    IN
    IF scan.err # NoError THEN Fail(r0, scan.err)
    ELSE IF ~scan.found THEN Fail(r0, InvalidHeader)
    ELSE IF ResolveToken(scan.header) = "none" THEN Fail(r0, InvalidHeader)
    ELSE
    LET len == ReadVarnum(s, scan.pos)
        r1  == [r0 EXCEPT !.compression = ResolveToken(scan.header),
                          !.pos = len.pos,
                          !.log = Append(@, "varnum")]
    IN
    IF len.err # NoError THEN Fail(r1, len.err)
    ELSE
    LET body == ReadBody(s, len.pos, len.value)
        r2   == [r1 EXCEPT !.byteLen = len.value,
                           !.bodyStart = len.pos,
                           !.pos = body.pos,
                           !.log = Append(@, "body")]
    IN
    IF body.err # NoError THEN Fail(r2, body.err)
    ELSE
    LET dec == RunDecoder(r2.compression, body.buf, derr)
        r3  == IF r2.compression = "Identity" THEN r2
               ELSE [r2 EXCEPT !.log = Append(@, "decompress")]
    IN
    IF dec.err # NoError THEN Fail(r3, dec.err)
    ELSE
    LET got == Deserialize(deser, dec.bytes)
        r4  == [r3 EXCEPT !.log = Append(@, "deserialize")]
    IN
    IF got.err # NoError THEN Fail(r4, got.err)
    ELSE [r4 EXCEPT !.ok = TRUE, !.value = got.value]

\* decompress on the frame CompressHugeRun wrote, read back from its start.
DecompressHugeRun(h) ==
    LET len    == ReadVarnum(h.lengthField, 1)
        whole  == len.value = h.bodyCount
    IN  [h EXCEPT !.decoded   = TRUE,
                  !.byteLen   = len.value,
                  !.decodedOk = h.alg = "Identity" \/ whole,
                  !.valueLen  = IF h.alg = "Identity" THEN AsUsize(len.value)
                                ELSE IF whole THEN h.before
                                ELSE <<0, 0>>]

(***************************************************************************)
(* Inputs.                                                                 *)
(***************************************************************************)
DataBytes == {SEMI, 200}

Hello == <<104, 101, 108, 108, 111>>

LongData == [i \in 1..LongLen |-> 7]

DataCases ==
    UNION {[1..k -> DataBytes] : k \in 0..MaxDataLen} \cup {Hello, LongData}

\* The inputs of the calls that follow the first one on a sink.
FollowCases == {Hello}

Rooms == {Unlimited} \cup 0..MaxRoom

Droppable(a, d) ==
    IF a \in {"Deflate", "Brotli"} /\ Len(d) > 1
    THEN {k \in 0..MaxDropped : k < Len(d)}
    ELSE {0}

\* Lengths around 2^32, as <<hi, lo>>.
HugeLens ==
    { <<Limb - 1, Limb - 1>>, <<Limb, 0>>, <<Limb, 5>>, <<Limb + 1, 300>>, <<2 * Limb, 0>> }

Filler(n) == [i \in 1..n |-> 120]

HeaderCases ==
    {TokenOf(a) : a \in Values}
    \cup { <<>>,
           <<73, 100, 101, 110, 116, 105, 116, 121>>,     \* Identity
           <<103, 122, 105>>,                             \* gzi
           <<103, 122, 105, 112, 112>>,                   \* gzipp
           <<32, 103, 122, 105, 112>>,                    \* " gzip"
           <<103, 122, 105, 112, 32>>,                    \* "gzip "
           <<98, 114, 111, 116, 108, 105>>,               \* brotli
           <<108, 122, 119>> }                            \* lzw
    \cup {Filler(n) : n \in {MAX_LENGTH - 1, MAX_LENGTH, MAX_LENGTH + 1}}

TailCases ==
    { <<>>,
      <<0>>,
      <<2, 59, 200>>,
      <<1, 7, 9, 9>>,
      <<5, 104>>,
      <<128>>,
      <<255, 255, 255, 255, 255, 1>>,
      <<255, 255, 255, 255, 15, 1, 2>> }
    \cup {<<3>> \o Encoder(a, <<200>>) : a \in Values \ {"Identity"}}
    \cup {<<3>> \o Encoder("Gzip", <<200>>) \o TokenOf("Identity") \o <<SEMI, 1, 7>>}

Crafted ==
    {h \o <<SEMI>> \o t : h \in HeaderCases, t \in TailCases}
    \cup {h \o t : h \in HeaderCases, t \in TailCases}

(***************************************************************************)
(* The state machine.                                                      *)
(***************************************************************************)
Init ==
    /\ out = <<>>
    /\ cres = NoCompress
    /\ frames = <<>>
    /\ phase = "encode"
    /\ src = "none"
    /\ inp = <<>>
    /\ pos = 1
    /\ results = <<>>
    /\ huge = NoHuge

\* A call of compress on the sink.  After a call that failed the sink is given
\* up; the sink and the encoder fail in the first call on a sink only.
Compress(a, d, room, dropped, encFail) ==
    /\ phase = "encode"
    /\ ~huge.called
    /\ Len(frames) < MaxFrames
    /\ cres.called => cres.ok /\ d \in FollowCases /\ room = Unlimited /\ ~encFail
    /\ LET r == CompressRun(a, d, room, dropped, encFail)
       IN  /\ out' = out \o r.added
           /\ cres' = r
           /\ frames' = IF r.ok
                        THEN Append(frames, [alg |-> a, data |-> d, start |-> Len(out) + 1,
                                             len |-> Len(r.added)])
                        ELSE frames
    /\ UNCHANGED <<phase, src, inp, pos, results, huge>>

\* A call of compress on an input of 2^32 bytes or so, on a fresh sink.
CompressHuge(a, n, m) ==
    /\ phase = "encode"
    /\ ~cres.called
    /\ ~huge.called
    /\ a = "Identity" => m = n
    /\ huge' = CompressHugeRun(a, n, m)
    /\ UNCHANGED <<out, cres, frames, phase, src, inp, pos, results>>

DecompressHuge ==
    /\ huge.called
    /\ ~huge.decoded
    /\ huge' = DecompressHugeRun(huge)
    /\ UNCHANGED <<out, cres, frames, phase, src, inp, pos, results>>

\* The source is what the sink holds.
LoadSink ==
    /\ phase = "encode"
    /\ cres.called
    /\ phase' = "decode"
    /\ src' = "sink"
    /\ inp' = out
    /\ pos' = 1
    /\ UNCHANGED <<out, cres, frames, results, huge>>

\* The source is the first k bytes of a sink that holds one frame.
LoadTruncated(k) ==
    /\ phase = "encode"
    /\ cres.called
    /\ cres.ok
    /\ Len(frames) = 1
    /\ k < Len(out)
    /\ phase' = "decode"
    /\ src' = "truncated"
    /\ inp' = SubSeq(out, 1, k)
    /\ pos' = 1
    /\ UNCHANGED <<out, cres, frames, results, huge>>

\* The source is a byte string no call of compress wrote.
LoadCrafted(s) ==
    /\ phase = "encode"
    /\ ~cres.called
    /\ ~huge.called
    /\ phase' = "decode"
    /\ src' = "crafted"
    /\ inp' = s
    /\ pos' = 1
    /\ UNCHANGED <<out, cres, frames, results, huge>>

\* A call of decompress on the source, after the calls before it returned Ok.
Decompress(deser, derr) ==
    /\ phase = "decode"
    /\ Len(results) < MaxDecodes
    /\ results # <<>> => results[Len(results)].ok
    /\ LET r == DecompressRun(inp, pos, deser, derr)
       IN  /\ results' = Append(results, r)
           /\ pos' = r.pos
    /\ UNCHANGED <<out, cres, frames, phase, src, inp, huge>>

Next ==
    \/ \E a \in Values, d \in DataCases, room \in Rooms, encFail \in BOOLEAN :
         \E dropped \in Droppable(a, d) : Compress(a, d, room, dropped, encFail)
    \/ \E a \in Values, n \in HugeLens, m \in HugeLens : CompressHuge(a, n, m)
    \/ DecompressHuge
    \/ LoadSink
    \/ \E k \in 0..(LongLen + MaxRoom) : LoadTruncated(k)
    \/ \E s \in Crafted : LoadCrafted(s)
    \/ \E deser \in Deserializers, derr \in DecoderErrors : Decompress(deser, derr)

Spec == Init /\ [][Next]_vars

(***************************************************************************)
(* The properties.                                                         *)
(***************************************************************************)
Last(q) == q[Len(q)]

\* The frame a call of compress is to write for the body buffer.
FrameOf(a, buffer) ==
    TokenOf(a) \o <<SEMI>> \o VarnumBytes(Wide(Len(buffer))) \o buffer

\* The position of the first ';' of s at or after p (0: there is none).
FirstSemi(s, p) ==
    LET at == {i \in p..Len(s) : s[i] = SEMI}
    IN  IF at = {} THEN 0 ELSE CHOOSE i \in at : \A j \in at : i <= j

\* C1: a frame written by compress into a fresh sink, for any algorithm and
\* any data, is read back by decompress with the identity deserializer as
\* exactly that data.
RoundTrip ==
    (src = "sink" /\ cres.ok /\ results # <<>> /\ results[1].deser = "identity")
        => results[1].ok /\ results[1].value = frames[1].data

\* C2: decompress resolves the bytes before the first ';' to an algorithm only
\* when they are exactly that algorithm's token; on any other header it
\* resolves nothing and fails with InvalidHeader.
TokenFidelity ==
    \A k \in 1..Len(results) :
        LET r     == results[k]
            first == FirstSemi(inp, r.start)
            hdr   == SubSeq(inp, r.start, first - 1)
        IN  IF first = 0
            THEN r.compression = "none" /\ ~r.ok
            ELSE IF \E a \in Values : hdr = TokenOf(a)
            THEN hdr = TokenOf(r.compression)
            ELSE r.compression = "none" /\ ~r.ok /\ r.err = InvalidHeader

TokenFidelityWitness ==
    \E k \in 1..Len(results) :
        /\ results[k].found
        /\ results[k].header = <<103, 122, 105, 112, 112>>
        /\ results[k].err = InvalidHeader

\* C3: when compress returns Ok, the varnum after the ';' is the number of
\* body bytes written after it, the body ends the frame, and
\* CompressionResult.after is that number.
LengthExact ==
    /\ (cres.called /\ cres.ok) =>
          LET len   == ReadVarnum(cres.added, Len(TokenOf(cres.alg)) + 2)
              count == Len(cres.added) - len.pos + 1
          IN  /\ len.err = NoError
              /\ len.value = Wide(count)
              /\ cres.after = Wide(count)
    /\ (huge.called /\ huge.ok) =>
          /\ ReadVarnum(huge.lengthField, 1).value = huge.bodyCount
          /\ huge.after = huge.bodyCount

\* C4: when the 32 bytes at the source's position hold no ';', decompress
\* fails with InvalidHeader having read those 32 bytes and nothing more.
ScanBound ==
    \A k \in 1..Len(results) :
        LET r == results[k]
        IN  (/\ Len(inp) >= r.start + 31
             /\ \A i \in r.start..(r.start + 31) : inp[i] # SEMI)
            => /\ ~r.ok
               /\ r.err = InvalidHeader
               /\ r.scanReads <= 32
               /\ r.pos <= r.start + 32
               /\ r.log = <<"scan">>

ScanBoundWitness ==
    \E k \in 1..Len(results) :
        /\ results[k].err = InvalidHeader
        /\ results[k].scanReads = 32
        /\ Len(inp) > 33
        /\ inp[33] = SEMI

\* C5: when the token and the varnum length are valid and the source holds
\* fewer bytes than that length, decompress fails with UnexpectedEof; it
\* returns no value and runs neither the decompressor nor the deserializer.
Truncation ==
    \A k \in 1..Len(results) :
        LET r == results[k]
        IN  (/\ r.compression # "none"
             /\ Len(r.log) >= 3
             /\ ~WideLeq(r.byteLen, Wide(Len(inp) - r.bodyStart + 1)))
            => /\ ~r.ok
               /\ r.err = UnexpectedEof
               /\ r.value = <<>>
               /\ r.log = <<"scan", "varnum", "body">>

TruncationWitness ==
    \E k \in 1..Len(results) :
        /\ results[k].compression = "Identity"
        /\ results[k].byteLen = <<0, 5>>
        /\ results[k].bodyStart = Len(inp)
        /\ results[k].err = UnexpectedEof

\* C6: when the body has 2^32 bytes or more, compress reports an error.
LengthOverflowGuard ==
    (huge.called /\ ~FitsU32(huge.bodyCount)) => ~huge.ok

\* C7: compress with Identity writes 'identity;', varint(len(d)) and d, and
\* returns before = after = len(d); decompress of those bytes with the
\* identity deserializer returns d.
IdentityFraming ==
    /\ (cres.called /\ cres.ok /\ cres.alg = "Identity") =>
          /\ cres.added = <<105, 100, 101, 110, 116, 105, 116, 121, 59>>
                            \o VarnumBytes(Wide(Len(cres.data))) \o cres.data
          /\ cres.before = Wide(Len(cres.data))
          /\ cres.after = Wide(Len(cres.data))
    /\ (/\ src = "sink" /\ cres.ok /\ frames[1].alg = "Identity"
        /\ results # <<>> /\ results[1].deser = "identity") =>
          results[1].ok /\ results[1].value = frames[1].data
    /\ (huge.called /\ huge.alg = "Identity") =>
          /\ huge.ok
          /\ huge.lengthField = VarnumBytes(huge.before)
          /\ huge.after = huge.before
          /\ huge.decoded => (huge.decodedOk /\ huge.valueLen = huge.before)

\* C8: the error of a decompressor that rejects the body is none of the
\* errors decompress returns for a bad frame (header, length, truncated body).
ErrorDistinct ==
    \A k \in 1..Len(results) :
        (~results[k].ok /\ Last(results[k].log) = "decompress")
            => results[k].err \notin {InvalidHeader, InvalidVarnum, UnexpectedEof}

\* C9: a successful decompress consumes exactly one frame, so the calls on a
\* sink of frames written back to back return the payloads in order.
ExactConsumption ==
    (src = "sink" /\ cres.ok) =>
        \A k \in 1..Len(results) :
            results[k].ok =>
                /\ k <= Len(frames)
                /\ results[k].start = frames[k].start
                /\ results[k].pos = frames[k].start + frames[k].len
                /\ results[k].value = frames[k].data

\* The first half of C9 alone: a successful decompress on a sink of frames
\* starts on a frame and ends on the first byte after it.
FrameConsumed ==
    (src = "sink" /\ cres.ok) =>
        \A k \in 1..Len(results) :
            results[k].ok =>
                /\ k <= Len(frames)
                /\ results[k].start = frames[k].start
                /\ results[k].pos = frames[k].start + frames[k].len

\* C10: compress writes the token and ';', compresses, writes the length,
\* writes the body, in this order; the first step that fails ends the call
\* with an error and no result, and what the sink received is a prefix of the
\* frame (the token and ';' when the compressor failed).
EncodeAborts ==
    cres.called =>
        LET order == IF cres.alg = "Identity"
                     THEN <<"token", "length", "body">>
                     ELSE <<"token", "compress", "length", "body">>
            frame == FrameOf(cres.alg, Buffer(cres.alg, cres.data, cres.dropped))
        IN  /\ IsPrefix(cres.log, order)
            /\ IsPrefix(cres.added, frame)
            /\ cres.ok <=> cres.err = NoError
            /\ cres.ok => (cres.log = order /\ cres.added = frame)
            /\ ~cres.ok => Last(cres.log) = cres.failedAt
            /\ cres.failedAt = "compress" => cres.added = TokenOf(cres.alg) \o <<SEMI>>

EncodeAbortsWitness ==
    /\ cres.called
    /\ cres.failedAt = "compress"
    /\ cres.err = EncoderFailure
    /\ cres.added = TokenOf("Gzip") \o <<SEMI>>

====
